---- MODULE Spec2Model ----
(***************************************************************************)
(* The responsive navigation / view-state controller of Zap (ChatView),    *)
(* in the two builds of features/chat/chat-view/chat-view.ts that the      *)
(* repository holds:                                                       *)
(*   "split"      Adw.NavigationSplitView, collapsed when narrow           *)
(*                (src/src/features/chat/chat-view/chat-view.ts)           *)
(*   "breakpoint" Adw.BreakpointBin that swaps a desktop Box for a mobile  *)
(*                Adw.NavigationView (src/unnamed/part_001)                *)
(* together with the widgets it drives (ChatContent, ChatListItem,          *)
(* MessageBubble), the ChatService and UserService singletons              *)
(* (src/src/shared/services/chat-service.ts, src/unnamed/part_005), and    *)
(* the Window with its LoginPage (src/src/core/window/window.ts,           *)
(* src/unnamed/part_000, src/src/features/auth/login/login.ts).            *)
(* Every action is one GTK signal handler or one service call run to       *)
(* completion on the main loop.  The one suspension point of the code is   *)
(* await userService.login in Window.handleLogin: the handler is two       *)
(* actions, before and after the await.  The service methods are async     *)
(* but await nothing.                                                      *)
(***************************************************************************)
EXTENDS Integers, Sequences, FiniteSets, TLC

VARIABLES
    variant,                \* which ChatView build is running
    chats,                  \* ChatView.chats
    messages,               \* ChatView.messages
    currentChatId,          \* ChatView.currentChatId
    userName,               \* ChatView.userName / userNameLabel
    listBox,                \* rows (ChatListItem) of the desktop / sidebar list
    listBoxMobile,          \* rows of listBox_mobile (breakpoint build only)
    welcomeContainer,       \* [visible]
    chatContent,            \* the ChatContent widget "chatContent"
    splitView,              \* [collapsed, show_content]   (split build)
    breakpointBin,          \* [child]                     (breakpoint build)
    mobileNavigationView,   \* [stack]  navigation_view's page stack
    mobileWelcomeContainer, \* [visible]
    mobileChatContent,      \* the ChatContent widget "mobileChatContent"
    chatPageTitle,          \* [title]
    log,                    \* history: the last operations, each with the ViewState before it
    svcChats,               \* ChatService.chats
    svcMessages,            \* ChatService.messages
    svcCurrentUser,         \* ChatService.currentUser: <<>> for null, <<u>> for user u
    svcResponse,            \* the ChatServiceResponse of the last service call
    bubble,                 \* a MessageBubble widget
    row,                    \* a ChatListItem widget on its own
    call,                   \* history: the last call made on a widget, with the widget before it
    replaced,               \* the template regions the host has replaced since construction
    userObjects,            \* the User objects that exist, by reference (1, 2, ...)
    authenticatedUsers,     \* UserService.authenticatedUsers: phone number -> reference
    usCurrentUser,          \* UserService.currentUser: <<>> for null, <<r>> for the object r
    usResponse,             \* the response of the last UserService call
    windowBuild,            \* which Window build is running
    viewStack,              \* [visible_child_name] of the window's Adw.ViewStack "stack"
    phoneEntry,             \* [text] of the login page's entry
    errorLabel,             \* [text, visible] of the login page's error label
    pendingLogins,          \* the handleLogin calls suspended at await userService.login
    currentUserName,        \* what the window last gave Application.setCurrentUserName
    winLog                  \* history: the last window action, with the page before it

\* The state of ChatView and its widgets
viewVars == <<variant, chats, messages, currentChatId, userName, listBox, listBoxMobile,
              welcomeContainer, chatContent, splitView, breakpointBin, mobileNavigationView,
              mobileWelcomeContainer, mobileChatContent, chatPageTitle, log>>

\* The state of the ChatService singleton
svcVars == <<svcChats, svcMessages, svcCurrentUser, svcResponse>>

\* Widgets taken on their own
widgetVars == <<bubble, row, call>>

\* The regions whose constructor-time handles no longer designate the live widget
handleVars == <<replaced>>

\* The state of the UserService singleton, its User objects included
userVars == <<userObjects, authenticatedUsers, usCurrentUser, usResponse>>

\* The state of the Window and its login page
windowVars == <<windowBuild, viewStack, phoneEntry, errorLabel, pendingLogins, currentUserName,
                winLog>>

\* What neither ChatView, nor ChatService, nor a widget on its own touches
restVars == <<handleVars, userVars, windowVars>>

\* What no handler of ChatView touches, and what no call of ChatService touches
outsideView == <<svcVars, widgetVars, restVars>>
outsideService == <<viewVars, widgetVars, restVars>>

vars == <<viewVars, outsideView>>

(***************************************************************************)
(* Data                                                                    *)
(***************************************************************************)

\* currentChatId: number | null = null
Null == 0

\* loadDataFromService: the four mock chats
mockChats ==
    << [id |-> 1, name |-> "Alice Johnson", lastMessage |-> "See you tomorrow!",
        timestamp |-> "10:30 AM", unreadCount |-> 0],
       [id |-> 2, name |-> "Bob Smith", lastMessage |-> "Thanks for the help",
        timestamp |-> "9:15 AM", unreadCount |-> 3],
       [id |-> 3, name |-> "Team Chat", lastMessage |-> "Meeting at 2 PM",
        timestamp |-> "Yesterday", unreadCount |-> 1],
       [id |-> 4, name |-> "Charlie Brown", lastMessage |-> "Did you see the game?",
        timestamp |-> "Yesterday", unreadCount |-> 0] >>

\* loadMessagesForChat: the five mock messages it builds for chatId
mockMessages(chatId) ==
    << [id |-> 1, chatId |-> chatId, text |-> "Hey, how are you doing?",
        timestamp |-> "10:00 AM", isOwn |-> FALSE],
       [id |-> 2, chatId |-> chatId, text |-> "I'm doing great! Just finished that project.",
        timestamp |-> "10:05 AM", isOwn |-> TRUE],
       [id |-> 3, chatId |-> chatId, text |-> "That's awesome! Can you share the details?",
        timestamp |-> "10:10 AM", isOwn |-> FALSE],
       [id |-> 4, chatId |-> chatId, text |-> "Sure, I'll send you the files later today.",
        timestamp |-> "10:15 AM", isOwn |-> TRUE],
       [id |-> 5, chatId |-> chatId, text |-> "See you tomorrow!",
        timestamp |-> "10:30 AM", isOwn |-> FALSE] >>

\* getMessagesForChat (breakpoint build): the three mock messages for chatId
getMessagesForChat(chatId) ==
    << [id |-> 1, chatId |-> chatId, text |-> "Hey, how are you doing?",
        timestamp |-> "10:00 AM", isOwn |-> FALSE],
       [id |-> 2, chatId |-> chatId, text |-> "I'm doing great! Just finished that project.",
        timestamp |-> "10:05 AM", isOwn |-> TRUE],
       [id |-> 3, chatId |-> chatId, text |-> "That's awesome! Can you share the details?",
        timestamp |-> "10:10 AM", isOwn |-> FALSE] >>

\* Number.prototype.toString of a count: its decimal digits
RECURSIVE toString(_)
toString(n) ==
    LET digit(d) == <<"0", "1", "2", "3", "4", "5", "6", "7", "8", "9">>[d + 1]
    IN  IF n < 10 THEN digit(n) ELSE toString(n \div 10) \o digit(n % 10)

(***************************************************************************)
(* ChatListItem                                                            *)
(***************************************************************************)

\* The unread badge as setChatData / updateUnreadCount leave it: shown with the
\* count as its label when count > 0, hidden (label untouched) otherwise.
BadgeAfter(badge, count) ==
    IF count > 0
    THEN [visible |-> TRUE, label |-> toString(count)]
    ELSE [badge EXCEPT !.visible = FALSE]

\* new ChatListItem(); setChatData(chats[i]).  chatData is a reference to the
\* chat object: the row holds the index of the chat in ChatView.chats.
setChatData(cs, i) ==
    [chatData    |-> i,
     title       |-> cs[i].name,
     subtitle    |-> cs[i].lastMessage,
     timestamp   |-> cs[i].timestamp,
     unreadBadge |-> BadgeAfter([visible |-> FALSE, label |-> ""], cs[i].unreadCount)]

\* new ChatListItem(): no chat data (0 stands for null), the badge as the
\* template leaves it
NewChatListItem ==
    [chatData |-> Null, title |-> "", subtitle |-> "", timestamp |-> "",
     unreadBadge |-> [visible |-> FALSE, label |-> ""]]

\* ChatListItem.setChatData(chats[i]) on a row r that may have been used before
setChatDataOn(r, cs, i) ==
    [chatData    |-> i,
     title       |-> cs[i].name,
     subtitle    |-> cs[i].lastMessage,
     timestamp   |-> cs[i].timestamp,
     unreadBadge |-> BadgeAfter(r.unreadBadge, cs[i].unreadCount)]

\* Mutant of updateUnreadCount: the badge always takes the label and is shown
updateUnreadCount_Shown(r, count) ==
    IF r.chatData # Null
    THEN [r EXCEPT !.unreadBadge = [visible |-> TRUE, label |-> toString(count)]]
    ELSE r

\* ChatListItem.updateUnreadCount(count), its effect on the row: nothing
\* without chat data
updateUnreadCount(r, count) ==
    IF r.chatData # Null
    THEN [r EXCEPT !.unreadBadge = BadgeAfter(@, count)]
    ELSE r

(***************************************************************************)
(* ChatContent                                                             *)
(***************************************************************************)

\* One widget per message, in order (createMessageWidget)
Widgets(msgs) == [k \in 1..Len(msgs) |-> msgs[k].text]

\* ChatContent.loadMessages(chatId, messages)
loadMessages(cc, chatId, msgs) ==
    [cc EXCEPT !.currentChatId = chatId, !.messages = msgs, !.widgets = Widgets(msgs)]

\* ChatContent.clearMessages()
clearMessages(cc) ==
    [cc EXCEPT !.currentChatId = Null, !.messages = <<>>, !.widgets = <<>>]

\* Mutant of addMessage: the chat id of the message is not looked at
addMessage_Any(cc, message) ==
    [cc EXCEPT !.messages = Append(@, message), !.widgets = Append(@, message.text)]

\* ChatContent.addMessage(message): a message of another chat is refused with
\* a warning; otherwise it is pushed and its widget appended
addMessage(cc, message) ==
    IF message.chatId # cc.currentChatId
    THEN cc
    ELSE [cc EXCEPT !.messages = Append(@, message), !.widgets = Append(@, message.text)]

\* A ChatContent as constructed: no chat, no messages
NewChatContent == [visible |-> TRUE, currentChatId |-> Null, messages |-> <<>>, widgets |-> <<>>]

(***************************************************************************)
(* What is on screen: the ViewState the controller presents                *)
(***************************************************************************)

ListPage == "chat_list_page"
ContentPage == "chat_content_page"

\* The page a navigation stack shows is its last one
Top(stack) == stack[Len(stack)]

\* isMobileLayout(): the breakpoint bin shows the NavigationView (mobile) or the
\* desktop Box; anything else counts as desktop
isMobileLayout == breakpointBin.child = "NavigationView"

LayoutMode ==
    IF variant = "split"
    THEN (IF splitView.collapsed THEN "MOBILE" ELSE "DESKTOP")
    ELSE (IF isMobileLayout THEN "MOBILE" ELSE "DESKTOP")

\* The content area of the split view / desktop Box: chatContent when it is
\* visible, else the welcome container when that is visible, else nothing.
ContentArea ==
    IF chatContent.visible THEN "THREAD"
    ELSE IF welcomeContainer.visible THEN "WELCOME"
    ELSE "NONE"

\* The panel the user is looking at.  A collapsed split view shows its sidebar
\* (the list) unless show_content; the mobile NavigationView shows the page on
\* top of its stack; the wide layouts show the list beside the content area.
ActivePanel ==
    IF variant = "split"
    THEN (IF splitView.collapsed /\ ~splitView.show_content THEN "LIST" ELSE ContentArea)
    ELSE (IF isMobileLayout
          THEN (IF Top(mobileNavigationView.stack) = ContentPage THEN "THREAD" ELSE "LIST")
          ELSE ContentArea)

\* Whether the layout has the list panel (sidebar, desktop list or list page) and
\* the content region (content page or desktop content area) on screen
ListPanelVisible ==
    IF variant = "split"
    THEN ~splitView.collapsed \/ ~splitView.show_content
    ELSE ~isMobileLayout \/ Top(mobileNavigationView.stack) = ListPage

ContentRegionVisible ==
    IF variant = "split"
    THEN ~splitView.collapsed \/ splitView.show_content
    ELSE ~isMobileLayout \/ Top(mobileNavigationView.stack) = ContentPage

ViewState ==
    [activePanel |-> ActivePanel, activeConversationId |-> currentChatId,
     layoutMode |-> LayoutMode]

\* The ChatContent widget that the current layout puts on screen
ShownContent == IF variant = "breakpoint" /\ isMobileLayout THEN mobileChatContent ELSE chatContent

\* History: the last two operations run (log[1] the earlier, log[2] the later),
\* each with the ViewState and the navigation stack it started from
NoOp ==
    [op |-> "none", arg |-> Null, ok |-> TRUE,
     pre |-> [activePanel |-> "NONE", activeConversationId |-> Null, layoutMode |-> "NONE"],
     preStack |-> <<>>]

Logged(op, arg, ok) ==
    log' = <<log[2], [op |-> op, arg |-> arg, ok |-> ok, pre |-> ViewState,
                      preStack |-> mobileNavigationView.stack]>>

\* The entry construction leaves in the history: ok is false when the list load threw
Construction(listOk) == [NoOp EXCEPT !.op = "initialize", !.ok = listOk]

PrevOp == log[1]
LastOp == log[2]

(***************************************************************************)
(* Construction                                                            *)
(***************************************************************************)

\* initializeChatList: one ChatListItem per loaded chat
Rows(cs) == [i \in 1..Len(cs) |-> setChatData(cs, i)]

\* Mutant of loadDataFromService: the catch branch keeps the chats
loadDataFromService_Kept(listOk) == mockChats

\* loadDataFromService: what it leaves in this.chats.  listOk is false when its
\* try block throws: the catch branch falls back to empty arrays.
loadDataFromService(listOk) == IF listOk THEN mockChats ELSE <<>>

(***************************************************************************)
(* MessageBubble                                                           *)
(***************************************************************************)

\* status?: MessageStatus -- a message that carries no status
Undefined == "undefined"

\* The values of MessageStatus ("sent", "delivered", "read", "failed"), a message
\* without a status, and "pending": a status the enum does not declare, which
\* the switch of updateStatusIcon receives like any other value
Statuses == {Undefined, "pending", "sent", "delivered", "read", "failed"}

\* A MessageBubble as built from its template; v is what the template gives
\* the status icon's visible property
NewMessageBubble(v) ==
    [messageData |-> <<>>, messageText |-> "", timestampLabel |-> "",
     statusIcon |-> [visible |-> v, icon_name |-> "", tooltip_text |-> ""],
     halign |-> "FILL", css |-> {}]

\* Mutant of updateStatusIcon: the FAILED case is missing from the switch
updateStatusIcon_NoFailed(b, status) ==
    IF b.messageData = <<>> \/ ~b.messageData[1].isOwn THEN b
    ELSE CASE status = "sent" ->
                [b EXCEPT !.statusIcon.icon_name = "emblem-default-symbolic",
                          !.statusIcon.tooltip_text = "Sent"]
           [] status = "delivered" ->
                [b EXCEPT !.statusIcon.icon_name = "emblem-ok-symbolic",
                          !.statusIcon.tooltip_text = "Delivered"]
           [] status = "read" ->
                [b EXCEPT !.statusIcon.icon_name = "emblem-read-symbolic",
                          !.statusIcon.tooltip_text = "Read"]
           [] OTHER ->
                [b EXCEPT !.statusIcon.icon_name = "emblem-synchronizing-symbolic",
                          !.statusIcon.tooltip_text = "Sending..."]

\* MessageBubble.updateStatusIcon: returns at once unless the bubble holds an
\* own message; otherwise a switch on the status, with a default branch
updateStatusIcon(b, status) ==
    IF b.messageData = <<>> \/ ~b.messageData[1].isOwn THEN b
    ELSE CASE status = "sent" ->
                [b EXCEPT !.statusIcon.icon_name = "emblem-default-symbolic",
                          !.statusIcon.tooltip_text = "Sent"]
           [] status = "delivered" ->
                [b EXCEPT !.statusIcon.icon_name = "emblem-ok-symbolic",
                          !.statusIcon.tooltip_text = "Delivered"]
           [] status = "read" ->
                [b EXCEPT !.statusIcon.icon_name = "emblem-read-symbolic",
                          !.statusIcon.tooltip_text = "Read"]
           [] status = "failed" ->
                [b EXCEPT !.statusIcon.icon_name = "dialog-error-symbolic",
                          !.statusIcon.tooltip_text = "Failed to send"]
           [] OTHER ->
                [b EXCEPT !.statusIcon.icon_name = "emblem-synchronizing-symbolic",
                          !.statusIcon.tooltip_text = "Sending..."]

\* MessageBubble.setMessageData
setMessageData(b, message) ==
    LET b1 == [b EXCEPT !.messageData = <<message>>,
                        !.messageText = message.text,
                        !.timestampLabel = message.timestamp]
    IN  IF message.isOwn
        THEN updateStatusIcon(
                 [b1 EXCEPT !.halign = "END",
                            !.css = (@ \cup {"own-message"}) \ {"other-message"},
                            !.statusIcon.visible = TRUE],
                 message.status)
        ELSE [b1 EXCEPT !.halign = "START",
                        !.css = (@ \cup {"other-message"}) \ {"own-message"},
                        !.statusIcon.visible = FALSE]

\* MessageBubble.updateStatus: nothing without message data
updateStatus(b, status) ==
    IF b.messageData # <<>>
    THEN updateStatusIcon([b EXCEPT !.messageData[1].status = status], status)
    ELSE b

\* MessageBubble.clear
clear(b) ==
    [b EXCEPT !.messageData = <<>>, !.messageText = "", !.timestampLabel = "",
              !.statusIcon.visible = FALSE,
              !.css = @ \ {"own-message", "other-message"}]

\* History: no call has been made on a widget yet
NoCall == [op |-> "none", message |-> <<>>, status |-> "", count |-> 0, pre |-> <<>>]

\* The widgets as the program starts
NewWidgets ==
    /\ bubble = NewMessageBubble(FALSE)
    /\ row = NewChatListItem
    /\ call = NoCall
    /\ replaced = {}

\* UserService.initializeMockUsers: the two pre-registered users, as objects 1 and 2
mockUsers ==
    << [id |-> "user1", name |-> "John Doe", phoneNumber |-> "+1234567890",
        status |-> "online"],
       [id |-> "user2", name |-> "Jane Smith", phoneNumber |-> "+0987654321",
        status |-> "away"] >>

\* new UserService(): no current user, the mock users registered by phone number
initializeMockUsers ==
    /\ userObjects = mockUsers
    /\ authenticatedUsers = [phone \in {mockUsers[r].phoneNumber : r \in DOMAIN mockUsers} |->
                                CHOOSE r \in DOMAIN mockUsers : mockUsers[r].phoneNumber = phone]
    /\ usCurrentUser = <<>>
    /\ usResponse = [success |-> TRUE, error |-> ""]

\* History: no window action has run yet
NoAction ==
    [op |-> "none", phoneNumber |-> "", isValid |-> FALSE, success |-> FALSE, error |-> "",
     pre |-> "none"]

\* The two Window builds the repository holds: core/window/window.ts and the
\* one with a logout action and handleLoginPage (src/unnamed/part_000)
WindowBuilds == {"window.ts", "part_000"}

\* The window as constructed by the given build: the stack shows its first
\* page, the login page is empty and shows no error, no login is under way
NewWindow(build) ==
    /\ windowBuild = build
    /\ viewStack = [visible_child_name |-> "welcome"]
    /\ phoneEntry = [text |-> ""]
    /\ errorLabel = [text |-> "", visible |-> FALSE]
    /\ pendingLogins = <<>>
    /\ currentUserName = ""
    /\ winLog = NoAction

\* No service call has been made yet
NoResponse == [success |-> TRUE, error |-> ""]

\* ChatService.initializeMockData (the singleton is built when the module is
\* loaded): the same four chats, the five messages of chat 1, and no user
initializeMockData ==
    /\ svcChats = mockChats
    /\ svcMessages = mockMessages(1)
    /\ svcCurrentUser = <<>>
    /\ svcResponse = NoResponse

\* What is built beside the ChatView when the program starts
Elsewhere ==
    /\ initializeMockData
    /\ NewWidgets
    /\ initializeMockUsers

\* Mutant of WelcomeAfterShow: the welcome container is hidden in every layout
WelcomeAfterShow_Hidden(mobile) == [visible |-> FALSE]

\* showWelcomeScreen of the breakpoint build, its effect on welcomeContainer:
\* hidden when the layout is mobile ("hiding welcome screen, showing chat
\* list"), shown otherwise
WelcomeAfterShow(mobile) == [visible |-> ~mobile]

\* vfunc_constructed of the split build: loadDataFromService, initializeChatList,
\* showWelcomeScreen (userName "Chat", chatContent hidden, welcome shown),
\* setupNavigationHandling.  The window may start wide or narrow.
ConstructedSplitIn(listOk, build) ==
    /\ variant = "split"
    /\ chats = loadDataFromService(listOk)
    /\ messages = <<>>
    /\ currentChatId = Null
    /\ userName = "Chat"
    /\ listBox = Rows(chats)
    /\ listBoxMobile = <<>>
    /\ welcomeContainer = [visible |-> TRUE]
    /\ chatContent = [NewChatContent EXCEPT !.visible = FALSE]
    /\ splitView \in {[collapsed |-> c, show_content |-> FALSE] : c \in BOOLEAN}
    /\ breakpointBin = [child |-> "none"]
    /\ mobileNavigationView = [stack |-> <<>>]
    /\ mobileWelcomeContainer = [visible |-> FALSE]
    /\ mobileChatContent = [NewChatContent EXCEPT !.visible = FALSE]
    /\ chatPageTitle = [title |-> ""]
    /\ log = <<NoOp, Construction(listOk)>>
    /\ Elsewhere
    /\ NewWindow(build)

ConstructedSplit(listOk) == ConstructedSplitIn(listOk, "window.ts")

\* vfunc_constructed of the breakpoint build: loadDataFromService,
\* initializeChatList (desktop and mobile rows), setupMobileNavigation,
\* showWelcomeScreen and, when not mobile, showDesktopWelcomeScreen.
\* showWelcomeScreen hides the desktop welcome container when the layout is
\* mobile and shows it otherwise; it hides both ChatContent widgets.
ConstructedBreakpoint(listOk) ==
    /\ variant = "breakpoint"
    /\ chats = loadDataFromService(listOk)
    /\ messages = <<>>
    /\ currentChatId = Null
    /\ userName = ""
    /\ listBox = Rows(chats)
    /\ listBoxMobile = Rows(chats)
    /\ breakpointBin \in {[child |-> c] : c \in {"Box", "NavigationView"}}
    /\ welcomeContainer = WelcomeAfterShow(isMobileLayout)
    /\ chatContent = [NewChatContent EXCEPT !.visible = FALSE]
    /\ splitView = [collapsed |-> FALSE, show_content |-> FALSE]
    /\ mobileNavigationView = [stack |-> <<ListPage>>]
    /\ mobileWelcomeContainer = [visible |-> FALSE]
    /\ mobileChatContent = [NewChatContent EXCEPT !.visible = FALSE]
    /\ chatPageTitle = [title |-> ""]
    /\ log = <<NoOp, Construction(listOk)>>
    /\ Elsewhere
    /\ NewWindow("window.ts")

\* The mock data as written: the list load succeeds
InitSplit == ConstructedSplit(TRUE)

InitBreakpoint == ConstructedBreakpoint(TRUE)

Init == InitSplit \/ InitBreakpoint

\* Construction when loadDataFromService throws
InitLoadFailed == ConstructedSplit(FALSE) \/ ConstructedBreakpoint(FALSE)

(***************************************************************************)
(* The split build (src/src/features/chat/chat-view/chat-view.ts)          *)
(***************************************************************************)

\* Mutant of SplitLoaded: the messages are loaded but chatContent is not shown
SplitLoaded_NotShown(chatId) ==
    /\ messages' = mockMessages(chatId)
    /\ chatContent' = loadMessages(chatContent, chatId, mockMessages(chatId))

\* loadMessagesForChat, try branch: the messages are built, the welcome
\* container is hidden (the handler has hidden it already), chatContent is
\* shown and loaded.
SplitLoaded(chatId) ==
    /\ messages' = mockMessages(chatId)
    /\ chatContent' = loadMessages([chatContent EXCEPT !.visible = TRUE], chatId,
                                   mockMessages(chatId))

\* loadMessagesForChat, catch branch: messages = [] and chatContent.clearMessages().
\* Nothing the handler did before the call is undone.
SplitLoadFailed(chatId) ==
    /\ messages' = <<>>
    /\ chatContent' = clearMessages(chatContent)

\* loadMessagesForChat(chatId); ok is false when the try block throws
SplitLoadMessagesForChat(chatId, ok) ==
    IF ok THEN SplitLoaded(chatId) ELSE SplitLoadFailed(chatId)

\* What the activated handler writes to currentChatId before it loads the messages
SplitSelectedId(chatData) == chatData.id

\* The handler's mobile step: a collapsed split view is told to show its content page
SplitShowContent(sv) == IF sv.collapsed THEN [sv EXCEPT !.show_content = TRUE] ELSE sv

\* The "activated" handler of row i of listBox.  The sidebar row can be activated
\* when the split view shows its sidebar.
SplitActivated(i, ok) ==
    /\ variant = "split"
    /\ ~(splitView.collapsed /\ splitView.show_content)
    /\ LET chatData == chats[listBox[i].chatData] IN
        /\ userName' = chatData.name
        /\ welcomeContainer' = [welcomeContainer EXCEPT !.visible = FALSE]
        /\ currentChatId' = SplitSelectedId(chatData)
        /\ SplitLoadMessagesForChat(chatData.id, ok)
        /\ splitView' = SplitShowContent(splitView)
        /\ Logged("select", chatData.id, ok)
    /\ UNCHANGED <<variant, chats, listBox, listBoxMobile, breakpointBin,
                   mobileNavigationView, mobileWelcomeContainer, mobileChatContent,
                   chatPageTitle>>
    /\ UNCHANGED outsideView

\* Mutant of SplitOnCollapsedChanged: the handler shows the welcome screen again
SplitOnCollapsedChanged_Welcome ==
    /\ userName' = "Chat"
    /\ chatContent' = [chatContent EXCEPT !.visible = FALSE]
    /\ welcomeContainer' = [welcomeContainer EXCEPT !.visible = TRUE]
    /\ UNCHANGED <<messages, currentChatId>>

\* The notify::collapsed handler of setupNavigationHandling: it logs, and changes nothing
SplitOnCollapsedChanged ==
    UNCHANGED <<messages, currentChatId, userName, welcomeContainer, chatContent>>

\* The window crosses the breakpoint: the split view collapses or expands
\* (show_content is kept) and notify::collapsed runs.
SplitSetLayoutMode ==
    /\ variant = "split"
    /\ splitView' = [splitView EXCEPT !.collapsed = ~splitView.collapsed]
    /\ SplitOnCollapsedChanged
    /\ Logged(IF splitView.collapsed THEN "setLayoutDesktop" ELSE "setLayoutMobile", Null, TRUE)
    /\ UNCHANGED <<variant, chats, listBox, listBoxMobile, breakpointBin,
                   mobileNavigationView, mobileWelcomeContainer, mobileChatContent,
                   chatPageTitle>>
    /\ UNCHANGED outsideView

\* Back navigation of the collapsed split view ("libadwaita provides back button
\* automatically"): the content page is popped; no handler of ChatView runs.
SplitGoBack ==
    /\ variant = "split"
    /\ splitView.collapsed
    /\ splitView' = [splitView EXCEPT !.show_content = FALSE]
    /\ Logged("back", Null, TRUE)
    /\ UNCHANGED <<variant, chats, messages, currentChatId, userName, listBox,
                   listBoxMobile, welcomeContainer, chatContent, breakpointBin,
                   mobileNavigationView, mobileWelcomeContainer, mobileChatContent,
                   chatPageTitle>>
    /\ UNCHANGED outsideView

(***************************************************************************)
(* The breakpoint build (src/unnamed/part_001)                             *)
(***************************************************************************)

\* loadMessagesForChat of the breakpoint build.  try branch: the messages are
\* built and, unless the layout is mobile, chatContent is shown and loaded;
\* catch branch: messages = [] and chatContent.clearMessages().
BpLoadMessagesForChat(chatId, ok) ==
    IF ok
    THEN /\ messages' = mockMessages(chatId)
         /\ chatContent' = IF ~isMobileLayout
                           THEN loadMessages([chatContent EXCEPT !.visible = TRUE], chatId,
                                             mockMessages(chatId))
                           ELSE chatContent
    ELSE /\ messages' = <<>>
         /\ chatContent' = clearMessages(chatContent)

\* The "activated" handler of row i of listBox (the desktop list)
BpDesktopActivated(i, ok) ==
    /\ variant = "breakpoint"
    /\ ~isMobileLayout
    /\ LET chatData == chats[listBox[i].chatData] IN
        /\ welcomeContainer' = [welcomeContainer EXCEPT !.visible = FALSE]
        /\ currentChatId' = chatData.id
        /\ BpLoadMessagesForChat(chatData.id, ok)
        /\ Logged("select", chatData.id, ok)
    /\ UNCHANGED <<variant, chats, userName, listBox, listBoxMobile, splitView,
                   breakpointBin, mobileNavigationView, mobileWelcomeContainer,
                   mobileChatContent, chatPageTitle>>
    /\ UNCHANGED outsideView

\* Mutant of push_by_tag: the pushed page replaces the stack
push_by_tag_Replace(stack, tag) == <<tag>>

\* navView.push_by_tag(tag): the page goes on top; a page already in the stack
\* is refused by the toolkit and the stack stays as it is
push_by_tag(stack, tag) ==
    IF \E k \in 1..Len(stack) : stack[k] = tag THEN stack ELSE Append(stack, tag)

\* navView.pop(): the top page leaves, the root page never does
pop(stack) == IF Len(stack) > 1 THEN SubSeq(stack, 1, Len(stack) - 1) ELSE stack

\* loadMessagesIntoMobileChatContent(chatData): getMessagesForChat, then
\* mobileChatContent.loadMessages and visible = true
loadMessagesIntoMobileChatContent(cc, chatData) ==
    [loadMessages(cc, chatData.id, getMessagesForChat(chatData.id)) EXCEPT !.visible = TRUE]

\* navigateToChatContent(chatData).  The mobile welcome container is hidden, the
\* content page pushed and the title set; then the messages are fetched and
\* loaded into mobileChatContent and the desktop chatContent is hidden.  When
\* the fetch throws (ok false) the catch branch runs: its alternative push needs
\* this.chatContentPage, which is never assigned, so nothing more happens.
navigateToChatContent(chatData, ok) ==
    /\ mobileWelcomeContainer' = [mobileWelcomeContainer EXCEPT !.visible = FALSE]
    /\ mobileNavigationView' =
           [mobileNavigationView EXCEPT !.stack = push_by_tag(@, ContentPage)]
    /\ chatPageTitle' = [chatPageTitle EXCEPT !.title = chatData.name]
    /\ IF ok
       THEN /\ mobileChatContent' = loadMessagesIntoMobileChatContent(mobileChatContent, chatData)
            /\ chatContent' = [chatContent EXCEPT !.visible = FALSE]
       ELSE UNCHANGED <<mobileChatContent, chatContent>>

\* The "activated" handler of row i of listBox_mobile.  The row can be activated
\* when the navigation view shows the list page.
BpMobileActivated(i, ok) ==
    /\ variant = "breakpoint"
    /\ isMobileLayout
    /\ Top(mobileNavigationView.stack) = ListPage
    /\ LET chatData == chats[listBoxMobile[i].chatData] IN
        /\ welcomeContainer' = [welcomeContainer EXCEPT !.visible = FALSE]
        /\ navigateToChatContent(chatData, ok)
        /\ currentChatId' = chatData.id
        /\ Logged("select", chatData.id, ok)
    /\ UNCHANGED <<variant, chats, messages, userName, listBox, listBoxMobile,
                   splitView, breakpointBin>>
    /\ UNCHANGED outsideView

\* Mutant of BackResetId: the handler leaves the current chat id as it is
BackResetId_Kept == currentChatId

\* What the back button's handler writes to currentChatId
BackResetId == Null

\* Mutant of BackHideContent: the handler leaves the mobile chat content visible
BackHideContent_Kept(cc) == cc

\* What the back button's handler does to mobileChatContent: it hides it
BackHideContent(cc) == [cc EXCEPT !.visible = FALSE]

\* The "clicked" handler of backButton (setupMobileNavigation): pop, reset the
\* current chat id, hide the mobile chat content.
BpGoBack ==
    /\ variant = "breakpoint"
    /\ mobileNavigationView' = [mobileNavigationView EXCEPT !.stack = pop(@)]
    /\ currentChatId' = BackResetId
    /\ mobileChatContent' = BackHideContent(mobileChatContent)
    /\ Logged("back", Null, TRUE)
    /\ UNCHANGED <<variant, chats, messages, userName, listBox, listBoxMobile,
                   welcomeContainer, chatContent, splitView, breakpointBin,
                   mobileWelcomeContainer, chatPageTitle>>
    /\ UNCHANGED outsideView

\* What a change of layout does to the controller's own state: the breakpoint
\* build connects no handler to it, so nothing
BpOnLayoutChanged ==
    UNCHANGED <<messages, currentChatId, userName, welcomeContainer, chatContent,
                mobileNavigationView, mobileWelcomeContainer, mobileChatContent,
                chatPageTitle>>

\* The window crosses the breakpoint: the bin swaps its child
BpSetLayoutMode ==
    /\ variant = "breakpoint"
    /\ breakpointBin' = [breakpointBin EXCEPT
                           !.child = IF isMobileLayout THEN "Box" ELSE "NavigationView"]
    /\ BpOnLayoutChanged
    /\ Logged(IF isMobileLayout THEN "setLayoutDesktop" ELSE "setLayoutMobile", Null, TRUE)
    /\ UNCHANGED <<variant, chats, listBox, listBoxMobile, splitView>>
    /\ UNCHANGED outsideView

(***************************************************************************)
(* showWelcomeScreen as an operation of its own                            *)
(***************************************************************************)

\* showWelcomeScreen() of the split build, run in the state at hand: the user
\* name goes back to "Chat", chatContent is hidden, the welcome container is
\* shown.  It writes neither currentChatId nor the split view.
SplitShowWelcomeScreen ==
    /\ variant = "split"
    /\ userName' = "Chat"
    /\ chatContent' = [chatContent EXCEPT !.visible = FALSE]
    /\ welcomeContainer' = [visible |-> TRUE]
    /\ Logged("showWelcome", Null, TRUE)
    /\ UNCHANGED <<variant, chats, messages, currentChatId, listBox, listBoxMobile,
                   splitView, breakpointBin, mobileNavigationView,
                   mobileWelcomeContainer, mobileChatContent, chatPageTitle>>
    /\ UNCHANGED outsideView

\* showWelcomeScreen() of the breakpoint build, run in the state at hand: both
\* ChatContent widgets and the mobile welcome container are hidden; the desktop
\* welcome container is shown unless the layout is mobile.  It writes neither
\* currentChatId nor the navigation stack.
BpShowWelcomeScreen ==
    /\ variant = "breakpoint"
    /\ chatContent' = [chatContent EXCEPT !.visible = FALSE]
    /\ mobileChatContent' = [mobileChatContent EXCEPT !.visible = FALSE]
    /\ mobileWelcomeContainer' = [visible |-> FALSE]
    /\ welcomeContainer' = WelcomeAfterShow(isMobileLayout)
    /\ Logged("showWelcome", Null, TRUE)
    /\ UNCHANGED <<variant, chats, messages, currentChatId, userName, listBox,
                   listBoxMobile, splitView, breakpointBin, mobileNavigationView,
                   chatPageTitle>>
    /\ UNCHANGED outsideView

(***************************************************************************)
(* Specification                                                           *)
(***************************************************************************)

\* The rows that exist: one per loaded chat
ChatIndex == DOMAIN listBox

Next ==
    \/ \E i \in ChatIndex, ok \in BOOLEAN : SplitActivated(i, ok)
    \/ SplitSetLayoutMode
    \/ SplitGoBack
    \/ \E i \in ChatIndex, ok \in BOOLEAN : BpDesktopActivated(i, ok)
    \/ \E i \in ChatIndex, ok \in BOOLEAN : BpMobileActivated(i, ok)
    \/ BpGoBack
    \/ BpSetLayoutMode

Spec == Init /\ [][Next]_vars

\* The runs in which no message load throws: what the mock data as written does
NextMock ==
    \/ \E i \in ChatIndex : SplitActivated(i, TRUE)
    \/ SplitSetLayoutMode
    \/ SplitGoBack
    \/ \E i \in ChatIndex : BpDesktopActivated(i, TRUE)
    \/ \E i \in ChatIndex : BpMobileActivated(i, TRUE)
    \/ BpGoBack
    \/ BpSetLayoutMode

SpecMock == Init /\ [][NextMock]_vars

\* The same handlers when construction may have met a failing list load
SpecLoad == (Init \/ InitLoadFailed) /\ [][Next]_vars

\* The handlers together with showWelcomeScreen called as an operation
NextWelcome ==
    \/ Next
    \/ SplitShowWelcomeScreen
    \/ BpShowWelcomeScreen

SpecWelcome == Init /\ [][NextWelcome]_vars

(***************************************************************************)
(* ChatService (src/src/shared/services/chat-service.ts)                   *)
(***************************************************************************)

\* The most chats and messages the service is let grow to
MaxChats == 4
MaxMessages == 7

\* Inputs of the service calls
ChatIds == 1..MaxChats
SendIds == {mockChats[1].id, mockChats[2].id}
Texts == {"", "  ", " hi "}
Clock == {"11:00 AM"}
NewChats == {[name |-> "Dana Scully", lastMessage |-> "", timestamp |-> "Now", unreadCount |-> 0]}
Users == {[id |-> "user_1", name |-> "Alice", phoneNumber |-> "+5511999999999"]}

\* String.prototype.trim over the blanks the inputs hold
RECURSIVE trimStart(_)
trimStart(s) ==
    IF Len(s) > 0 /\ SubSeq(s, 1, 1) = " " THEN trimStart(SubSeq(s, 2, Len(s))) ELSE s

RECURSIVE trimEnd(_)
trimEnd(s) ==
    IF Len(s) > 0 /\ SubSeq(s, Len(s), Len(s)) = " "
    THEN trimEnd(SubSeq(s, 1, Len(s) - 1)) ELSE s

trim(s) == trimEnd(trimStart(s))

\* Array.prototype.findIndex((c) => c.id === chatId): the first index, 0 when none
findIndex(cs, chatId) ==
    IF \E i \in 1..Len(cs) : cs[i].id = chatId
    THEN CHOOSE i \in 1..Len(cs) :
            cs[i].id = chatId /\ \A j \in 1..(i - 1) : cs[j].id # chatId
    ELSE 0

\* Array.prototype.filter((msg) => msg.chatId !== chatId)
RECURSIVE filterOut(_, _)
filterOut(msgs, chatId) ==
    IF msgs = <<>> THEN <<>>
    ELSE IF Head(msgs).chatId # chatId
         THEN <<Head(msgs)>> \o filterOut(Tail(msgs), chatId)
         ELSE filterOut(Tail(msgs), chatId)

\* The value a service call returns
Respond(success, error) == svcResponse' = [success |-> success, error |-> error]

\* addChat: the id it gives the new chat
NewChatId(cs) == Len(cs) + 1

\* sendMessage: the id it gives the new message
NewMessageId(msgs) == Len(msgs) + 1

\* setCurrentUser(user)
SetCurrentUser(user) ==
    /\ svcCurrentUser' = <<user>>
    /\ UNCHANGED <<svcChats, svcMessages, svcResponse>>
    /\ UNCHANGED outsideService

\* clearCurrentUser()
ClearCurrentUser ==
    /\ svcCurrentUser' = <<>>
    /\ UNCHANGED <<svcChats, svcMessages, svcResponse>>
    /\ UNCHANGED outsideService

\* Mutant of SendMessage: the logged-in user is not looked at
SendMessage_AnyUser(chatId, text, now) ==
    /\ Len(svcMessages) < MaxMessages
    /\ IF trim(text) = ""
       THEN /\ Respond(FALSE, "Message cannot be empty")
            /\ UNCHANGED <<svcChats, svcMessages>>
       ELSE LET newMessage == [id |-> NewMessageId(svcMessages), chatId |-> chatId,
                               text |-> trim(text), timestamp |-> now, isOwn |-> TRUE]
                k == findIndex(svcChats, chatId)
            IN  /\ svcMessages' = Append(svcMessages, newMessage)
                /\ svcChats' = IF k # 0
                               THEN [svcChats EXCEPT ![k].lastMessage = trim(text),
                                                     ![k].timestamp = now]
                               ELSE svcChats
                /\ Respond(TRUE, "")
    /\ UNCHANGED svcCurrentUser
    /\ UNCHANGED outsideService

\* sendMessage(chatId, text), with now the time of day the call reads
SendMessage(chatId, text, now) ==
    /\ Len(svcMessages) < MaxMessages
    /\ IF svcCurrentUser = <<>>
       THEN /\ Respond(FALSE, "No user logged in")
            /\ UNCHANGED <<svcChats, svcMessages>>
       ELSE IF trim(text) = ""
       THEN /\ Respond(FALSE, "Message cannot be empty")
            /\ UNCHANGED <<svcChats, svcMessages>>
       ELSE LET newMessage == [id |-> NewMessageId(svcMessages), chatId |-> chatId,
                               text |-> trim(text), timestamp |-> now, isOwn |-> TRUE]
                k == findIndex(svcChats, chatId)
            IN  /\ svcMessages' = Append(svcMessages, newMessage)
                /\ svcChats' = IF k # 0
                               THEN [svcChats EXCEPT ![k].lastMessage = trim(text),
                                                     ![k].timestamp = now]
                               ELSE svcChats
                /\ Respond(TRUE, "")
    /\ UNCHANGED svcCurrentUser
    /\ UNCHANGED outsideService

\* addChat(chat): the new chat goes to the front of the list
AddChat(chat) ==
    /\ Len(svcChats) < MaxChats
    /\ svcChats' = <<[id |-> NewChatId(svcChats), name |-> chat.name,
                      lastMessage |-> chat.lastMessage, timestamp |-> chat.timestamp,
                      unreadCount |-> chat.unreadCount]>> \o svcChats
    /\ Respond(TRUE, "")
    /\ UNCHANGED <<svcMessages, svcCurrentUser>>
    /\ UNCHANGED outsideService

\* deleteChat(chatId): the first chat with that id leaves, with every message of
\* that chat id
DeleteChat(chatId) ==
    /\ LET chatIndex == findIndex(svcChats, chatId) IN
        IF chatIndex # 0
        THEN /\ svcChats' = SubSeq(svcChats, 1, chatIndex - 1)
                                \o SubSeq(svcChats, chatIndex + 1, Len(svcChats))
             /\ svcMessages' = filterOut(svcMessages, chatId)
             /\ Respond(TRUE, "")
        ELSE /\ Respond(FALSE, "Chat not found")
             /\ UNCHANGED <<svcChats, svcMessages>>
    /\ UNCHANGED svcCurrentUser
    /\ UNCHANGED outsideService

\* The singleton's calls, with the ChatView left as constructed in a wide window
InitService == InitSplit /\ ~splitView.collapsed

\* Any sequence of addChat and deleteChat
NextChats ==
    \/ \E chat \in NewChats : AddChat(chat)
    \/ \E chatId \in ChatIds : DeleteChat(chatId)

SpecChats == InitService /\ [][NextChats]_vars

\* Any sequence of sendMessage and deleteChat, with users logging in and out
NextMessages ==
    \/ \E user \in Users : SetCurrentUser(user)
    \/ ClearCurrentUser
    \/ \E chatId \in SendIds, text \in Texts, now \in Clock : SendMessage(chatId, text, now)
    \/ \E chatId \in ChatIds : DeleteChat(chatId)

SpecMessages == InitService /\ [][NextMessages]_vars

\* sendMessage among logins, logouts and the deletion of the chats written to
NextSend ==
    \/ \E user \in Users : SetCurrentUser(user)
    \/ ClearCurrentUser
    \/ \E chatId \in SendIds, text \in Texts, now \in Clock : SendMessage(chatId, text, now)
    \/ \E chatId \in SendIds : DeleteChat(chatId)

SpecSend == InitService /\ [][NextSend]_vars

\* Pages and page sizes asked of getChats
MaxPage == 5
MaxPageSize == 5
Pages == 1..MaxPage
PageSizes == 1..MaxPageSize

\* Array.prototype.slice(start, end): a negative index counts from the end, both
\* are clamped to the array, and nothing is taken when end is not after start
slice(arr, start, end) ==
    LET len == Len(arr)
        clamp(k) == IF k < 0
                    THEN (IF len + k < 0 THEN 0 ELSE len + k)
                    ELSE (IF k > len THEN len ELSE k)
        from == clamp(start)
        to == clamp(end)
    IN  IF to > from THEN SubSeq(arr, from + 1, to) ELSE <<>>

\* Math.ceil(n / d) of two integers, n not negative and d positive
Math_ceil(n, d) == IF n % d = 0 THEN n \div d ELSE (n \div d) + 1

\* Mutant of getChats: the first page starts one page into the list
getChats_FromZero(stored, page, pageSize) ==
    LET startIndex == page * pageSize
        endIndex == startIndex + pageSize
    IN  [chats |-> slice(stored, startIndex, endIndex),
         pagination |-> [page |-> page, pageSize |-> pageSize,
                         totalItems |-> Len(stored),
                         totalPages |-> Math_ceil(Len(stored), pageSize)]]

\* The PaginatedChatList that getChats(page, pageSize) builds from the stored chats
getChats(stored, page, pageSize) ==
    LET startIndex == (page - 1) * pageSize
        endIndex == startIndex + pageSize
    IN  [chats |-> slice(stored, startIndex, endIndex),
         pagination |-> [page |-> page, pageSize |-> pageSize,
                         totalItems |-> Len(stored),
                         totalPages |-> Math_ceil(Len(stored), pageSize)]]

\* getChats(page, pageSize): the response carries the page, the service keeps
\* its state
GetChats(page, pageSize) ==
    /\ svcResponse' = [success |-> TRUE, error |-> "",
                       data |-> getChats(svcChats, page, pageSize)]
    /\ UNCHANGED <<svcChats, svcMessages, svcCurrentUser>>
    /\ UNCHANGED outsideService

NextPages ==
    \/ \E chat \in NewChats : AddChat(chat)
    \/ \E chatId \in ChatIds : DeleteChat(chatId)
    \/ \E page \in Pages, pageSize \in PageSizes : GetChats(page, pageSize)

SpecPages == InitService /\ [][NextPages]_vars

(***************************************************************************)
(* Phone numbers: the two validators                                       *)
(***************************************************************************)

Digits == {"0", "1", "2", "3", "4", "5", "6", "7", "8", "9"}

\* String.prototype.replace(/\D/g, ""): the digits of s, in order
RECURSIVE digitsOnly(_)
digitsOnly(s) ==
    IF Len(s) = 0 THEN ""
    ELSE (IF SubSeq(s, 1, 1) \in Digits THEN SubSeq(s, 1, 1) ELSE "")
             \o digitsOnly(SubSeq(s, 2, Len(s)))

\* String.prototype.startsWith
startsWith(s, prefix) == Len(s) >= Len(prefix) /\ SubSeq(s, 1, Len(prefix)) = prefix

\* String.prototype.substring(start, end): both indices are clamped to
\* 0..length and swapped when start is the larger; characters start..end-1
substring(s, start, end) ==
    LET clamp(n) == IF n < 0 THEN 0 ELSE IF n > Len(s) THEN Len(s) ELSE n
        lo == IF clamp(start) <= clamp(end) THEN clamp(start) ELSE clamp(end)
        hi == IF clamp(start) <= clamp(end) THEN clamp(end) ELSE clamp(start)
    IN  IF lo = hi THEN "" ELSE SubSeq(s, lo + 1, hi)

\* /^\d{1,3}$/.test(s): one to three digits and nothing else
isCountryCode(s) ==
    /\ Len(s) >= 1
    /\ Len(s) <= 3
    /\ \A k \in 1..Len(s) : SubSeq(s, k, k) \in Digits

\* validatePhoneNumber, the defaults of its options
minLength == 10
maxLength == 15

\* Mutant of validatePhoneNumber: no minimum length
validatePhoneNumber_AnyLength(phoneNumber) ==
    IF Len(trim(phoneNumber)) = 0
    THEN [isValid |-> FALSE, error |-> "Phone number cannot be empty"]
    ELSE [isValid |-> TRUE, error |-> ""]

\* validatePhoneNumber(phoneNumber) of shared/models/chat.model.ts with the
\* default options (allowInternational, 10 to 15 digits, empty not allowed):
\* what LoginPage.validateInput calls
validatePhoneNumber(phoneNumber) ==
    IF Len(trim(phoneNumber)) = 0
    THEN [isValid |-> FALSE, error |-> "Phone number cannot be empty"]
    ELSE LET trimmed == trim(phoneNumber)
             digits == digitsOnly(trimmed)
         IN  IF Len(digits) < minLength
             THEN [isValid |-> FALSE, error |-> "Phone number must be at least 10 digits"]
             ELSE IF Len(digits) > maxLength
             THEN [isValid |-> FALSE,
                   error |-> "Phone number must be no more than 15 digits"]
             ELSE IF /\ startsWith(trimmed, "+")
                     /\ ~isCountryCode(substring(trimmed, 1,
                                                 Len(trimmed) - (Len(digits) - 1)))
             THEN [isValid |-> FALSE, error |-> "Invalid country code format"]
             ELSE [isValid |-> TRUE, error |-> ""]

\* UserService.validatePhoneNumber (private): the digits are counted the same
\* way, but the country code is what precedes the last ten characters
UserService_validatePhoneNumber(phoneNumber) ==
    LET digits == digitsOnly(phoneNumber)
    IN  IF Len(digits) = 0
        THEN [isValid |-> FALSE, error |-> "Phone number cannot be empty"]
        ELSE IF Len(digits) < 10
        THEN [isValid |-> FALSE, error |-> "Phone number must be at least 10 digits"]
        ELSE IF Len(digits) > 15
        THEN [isValid |-> FALSE, error |-> "Phone number must be no more than 15 digits"]
        ELSE IF /\ startsWith(phoneNumber, "+")
                /\ ~isCountryCode(substring(phoneNumber, 1, Len(phoneNumber) - 10))
        THEN [isValid |-> FALSE, error |-> "Invalid country code format"]
        ELSE [isValid |-> TRUE, error |-> ""]

\* UserService.generateDisplayName: (XXX) XXX-XXXX for ten digits, else the
\* phone number as given
generateDisplayName(phoneNumber) ==
    LET digits == digitsOnly(phoneNumber)
    IN  IF Len(digits) = 10
        THEN "(" \o substring(digits, 0, 3) \o ") " \o substring(digits, 3, 6)
                 \o "-" \o substring(digits, 6, 10)
        ELSE phoneNumber

(***************************************************************************)
(* UserService (src/unnamed/part_005)                                      *)
(***************************************************************************)

\* At most this many User objects are created
MaxUsers == 4

\* What is typed as a phone number: nothing, too few digits, the number of a
\* pre-registered user, ten digits without "+", and "+" with eleven digits
Phones == {"", "12345", mockUsers[1].phoneNumber, "1234567890", "+12345678901"}

\* The updates given to updateProfile
Updates == {[name |-> "Johnny"], [status |-> "busy"]}

\* The values given to updateStatus
UserStatuses == {"online", "away"}

\* Object.assign(user, updates)
Object_assign(user, updates) ==
    [f \in DOMAIN user |-> IF f \in DOMAIN updates THEN updates[f] ELSE user[f]]

\* Map.prototype.set(phoneNumber, r)
MapSet(map, phoneNumber, r) ==
    [p \in DOMAIN map \cup {phoneNumber} |-> IF p = phoneNumber THEN r ELSE map[p]]

\* Map.prototype.delete(phoneNumber)
MapDelete(map, phoneNumber) == [p \in DOMAIN map \ {phoneNumber} |-> map[p]]

\* A ChatServiceResponse of UserService; data holds the reference of the user
UserResponse(success, error, data) == [success |-> success, error |-> error, data |-> data]

\* UserService.login(phoneNumber).  The method is async but awaits nothing:
\* its body runs to completion when it is called.  A new user is created for
\* an unknown number (its id, user_${Date.now()}, is taken to be fresh).
login(phoneNumber) ==
    LET validationResult == UserService_validatePhoneNumber(phoneNumber) IN
    IF ~validationResult.isValid
    THEN /\ usResponse' = UserResponse(FALSE, validationResult.error, <<>>)
         /\ UNCHANGED <<userObjects, authenticatedUsers, usCurrentUser, svcCurrentUser>>
    ELSE IF phoneNumber \notin DOMAIN authenticatedUsers
    THEN /\ Len(userObjects) < MaxUsers
         /\ LET r == Len(userObjects) + 1
                newUser == [id |-> "user_" \o toString(r),
                            name |-> generateDisplayName(phoneNumber),
                            phoneNumber |-> phoneNumber, status |-> "online"]
            IN  /\ userObjects' = Append(userObjects, newUser)
                /\ authenticatedUsers' = MapSet(authenticatedUsers, phoneNumber, r)
                /\ usCurrentUser' = <<r>>
                /\ svcCurrentUser' = <<r>>
                /\ usResponse' = UserResponse(TRUE, "", <<r>>)
    ELSE LET r == authenticatedUsers[phoneNumber]
         IN  /\ usCurrentUser' = <<r>>
             /\ userObjects' = [userObjects EXCEPT ![r].status = "online"]
             /\ svcCurrentUser' = <<r>>
             /\ usResponse' = UserResponse(TRUE, "", <<r>>)
             /\ UNCHANGED authenticatedUsers

\* UserService.logout()
logout ==
    IF usCurrentUser = <<>>
    THEN /\ usResponse' = UserResponse(FALSE, "No user is currently logged in", <<>>)
         /\ UNCHANGED <<userObjects, authenticatedUsers, usCurrentUser, svcCurrentUser>>
    ELSE /\ userObjects' = [userObjects EXCEPT ![usCurrentUser[1]].status = "offline"]
         /\ svcCurrentUser' = <<>>
         /\ usCurrentUser' = <<>>
         /\ usResponse' = UserResponse(TRUE, "", <<>>)
         /\ UNCHANGED authenticatedUsers

\* UserService.updateProfile(updates)
updateProfile(updates) ==
    IF usCurrentUser = <<>>
    THEN /\ usResponse' = UserResponse(FALSE, "No user is currently logged in", <<>>)
         /\ UNCHANGED <<userObjects, authenticatedUsers, usCurrentUser, svcCurrentUser>>
    ELSE LET r == usCurrentUser[1]
         IN  /\ userObjects' = [userObjects EXCEPT ![r] = Object_assign(@, updates)]
             /\ authenticatedUsers' =
                    MapSet(authenticatedUsers, userObjects[r].phoneNumber, r)
             /\ svcCurrentUser' = <<r>>
             /\ usResponse' = UserResponse(TRUE, "", <<r>>)
             /\ UNCHANGED usCurrentUser

\* UserService.updateStatus(status): the chat service is not told, it holds
\* the same object
UserService_updateStatus(status) ==
    IF usCurrentUser = <<>>
    THEN /\ usResponse' = UserResponse(FALSE, "No user is currently logged in", <<>>)
         /\ UNCHANGED <<userObjects, authenticatedUsers, usCurrentUser, svcCurrentUser>>
    ELSE LET r == usCurrentUser[1]
         IN  /\ userObjects' = [userObjects EXCEPT ![r].status = status]
             /\ authenticatedUsers' =
                    MapSet(authenticatedUsers, userObjects[r].phoneNumber, r)
             /\ usResponse' = UserResponse(TRUE, "", <<>>)
             /\ UNCHANGED <<usCurrentUser, svcCurrentUser>>

\* Mutant of deleteAccount: the chat service is not told
deleteAccount_KeepsChatUser ==
    IF usCurrentUser = <<>>
    THEN /\ usResponse' = UserResponse(FALSE, "No user is currently logged in", <<>>)
         /\ UNCHANGED <<userObjects, authenticatedUsers, usCurrentUser, svcCurrentUser>>
    ELSE /\ authenticatedUsers' =
                MapDelete(authenticatedUsers, userObjects[usCurrentUser[1]].phoneNumber)
         /\ usCurrentUser' = <<>>
         /\ usResponse' = UserResponse(TRUE, "", <<>>)
         /\ UNCHANGED <<userObjects, svcCurrentUser>>

\* UserService.deleteAccount()
deleteAccount ==
    IF usCurrentUser = <<>>
    THEN /\ usResponse' = UserResponse(FALSE, "No user is currently logged in", <<>>)
         /\ UNCHANGED <<userObjects, authenticatedUsers, usCurrentUser, svcCurrentUser>>
    ELSE /\ authenticatedUsers' =
                MapDelete(authenticatedUsers, userObjects[usCurrentUser[1]].phoneNumber)
         /\ usCurrentUser' = <<>>
         /\ svcCurrentUser' = <<>>
         /\ usResponse' = UserResponse(TRUE, "", <<>>)
         /\ UNCHANGED userObjects

\* What a call of UserService leaves alone
outsideUsers == <<viewVars, widgetVars, handleVars, windowVars,
                  svcChats, svcMessages, svcResponse>>

Login(phoneNumber) == login(phoneNumber) /\ UNCHANGED outsideUsers

Logout == logout /\ UNCHANGED outsideUsers

UpdateProfile(updates) == updateProfile(updates) /\ UNCHANGED outsideUsers

UpdateStatus(status) == UserService_updateStatus(status) /\ UNCHANGED outsideUsers

DeleteAccount == deleteAccount /\ UNCHANGED outsideUsers

NextUsers ==
    \/ \E phoneNumber \in Phones : Login(phoneNumber)
    \/ Logout
    \/ \E updates \in Updates : UpdateProfile(updates)
    \/ \E status \in UserStatuses : UpdateStatus(status)
    \/ DeleteAccount

SpecUsers == InitService /\ [][NextUsers]_vars

(***************************************************************************)
(* Window and LoginPage (src/src/core/window/window.ts, src/unnamed/       *)
(* part_000, src/src/features/auth/login/login.ts)                         *)
(***************************************************************************)

\* At most this many handleLogin calls wait at their await
MaxPending == 2

\* LoginPage.showError(message) and clearError(), their effect on the label
showError(message) == [text |-> message, visible |-> TRUE]
clearError == [text |-> "", visible |-> FALSE]

\* LoginPage.getPhoneNumber(): the entry's text, trimmed
getPhoneNumber == trim(phoneEntry.text)

\* LoginPage.validateInput() / isValid(): the verdict and what it leaves in
\* the error label.  An empty field is not valid and shows no error.
validateInput ==
    LET phoneNumber == getPhoneNumber
        validationResult == validatePhoneNumber(phoneNumber)
    IN  IF Len(trim(phoneNumber)) = 0
        THEN [isValid |-> FALSE, errorLabel |-> clearError]
        ELSE IF ~validationResult.isValid
        THEN [isValid |-> FALSE,
              errorLabel |-> showError(IF validationResult.error # ""
                                       THEN validationResult.error
                                       ELSE "Invalid phone number format")]
        ELSE [isValid |-> TRUE, errorLabel |-> clearError]

\* History: the window action op, with the page shown before it
Acted(op, phoneNumber, isValid, success, error) ==
    winLog' = [op |-> op, phoneNumber |-> phoneNumber, isValid |-> isValid,
               success |-> success, error |-> error, pre |-> viewStack.visible_child_name]

\* What an action of the window leaves alone outside the window and the services
outsideWindow == <<viewVars, widgetVars, handleVars, svcChats, svcMessages, svcResponse>>

\* The user edits the entry of the login page: its "changed" handler clears the error
TypePhoneNumber(text) ==
    /\ viewStack.visible_child_name = "login"
    /\ phoneEntry' = [text |-> text]
    /\ errorLabel' = clearError
    /\ Acted("changed", text, FALSE, FALSE, "")
    /\ UNCHANGED <<windowBuild, viewStack, pendingLogins, currentUserName>>
    /\ UNCHANGED <<userVars, svcCurrentUser, outsideWindow>>

\* The show-login action
ShowLogin ==
    /\ viewStack' = [viewStack EXCEPT !.visible_child_name = "login"]
    /\ Acted("show-login", "", FALSE, FALSE, "")
    /\ UNCHANGED <<windowBuild, phoneEntry, errorLabel, pendingLogins, currentUserName>>
    /\ UNCHANGED <<userVars, svcCurrentUser, outsideWindow>>

\* The logout action of the window (part_000), which the logout action of the
\* ChatView menu (part_002) repeats: the application forgets the user name and
\* the stack shows the login page
LogoutAction ==
    /\ windowBuild = "part_000"
    /\ currentUserName' = ""
    /\ viewStack' = [viewStack EXCEPT !.visible_child_name = "login"]
    /\ Acted("logout", "", FALSE, FALSE, "")
    /\ UNCHANGED <<windowBuild, phoneEntry, errorLabel, pendingLogins>>
    /\ UNCHANGED <<userVars, svcCurrentUser, outsideWindow>>

\* The login action, up to the await: handleLogin (window.ts) or handleLogin
\* and handleLoginPage (part_000).  The page validation comes first; when it
\* passes, userService.login runs (its body is synchronous) and the handler
\* is suspended with the result.
HandleLogin ==
    LET phoneNumber == getPhoneNumber
        valid == validateInput
    IN  IF windowBuild = "part_000" /\ Len(trim(phoneNumber)) = 0
        THEN /\ errorLabel' = showError("Please enter a phone number")
             /\ Acted("login", phoneNumber, FALSE, FALSE, "")
             /\ UNCHANGED <<windowBuild, viewStack, phoneEntry, pendingLogins,
                            currentUserName>>
             /\ UNCHANGED <<userVars, svcCurrentUser, outsideWindow>>
        ELSE IF ~valid.isValid
        THEN /\ errorLabel' = valid.errorLabel
             /\ Acted("login", phoneNumber, FALSE, FALSE, "")
             /\ UNCHANGED <<windowBuild, viewStack, phoneEntry, pendingLogins,
                            currentUserName>>
             /\ UNCHANGED <<userVars, svcCurrentUser, outsideWindow>>
        ELSE /\ Len(pendingLogins) < MaxPending
             /\ errorLabel' = valid.errorLabel
             /\ login(phoneNumber)
             /\ pendingLogins' = Append(pendingLogins,
                    [phoneNumber |-> phoneNumber, isValid |-> valid.isValid,
                     loginResult |-> usResponse'])
             /\ Acted("login", phoneNumber, TRUE, usResponse'.success, usResponse'.error)
             /\ UNCHANGED <<windowBuild, viewStack, phoneEntry, currentUserName>>
             /\ UNCHANGED outsideWindow

\* Mutant of PageAfterLogin: the chat page is shown whatever the result
PageAfterLogin_Always(loginResult, thrown, page) == "chat"

\* The page the stack shows when a suspended handleLogin has run to its end:
\* "chat" after a successful login, unless an exception took it to the catch
\* block first
PageAfterLogin(loginResult, thrown, page) ==
    IF loginResult.success /\ ~thrown THEN "chat" ELSE page

\* loginResult.data?.name || phoneNumber, read when the handler resumes
LoggedInName(pending) ==
    IF pending.loginResult.data # <<>> /\ userObjects[pending.loginResult.data[1]].name # ""
    THEN userObjects[pending.loginResult.data[1]].name
    ELSE pending.phoneNumber

\* A suspended handleLogin resumes after its await.  A failed login returns
\* (part_000 shows the error); a successful one switches the stack to "chat"
\* (window.ts first gives the user name to the application and to the chat
\* page).  thrown: a call after the await throws before the stack is
\* switched, and the catch block logs (part_000 shows an error).
LoginCompleted(thrown) ==
    /\ pendingLogins # <<>>
    /\ LET pending == Head(pendingLogins)
           loginResult == pending.loginResult
       IN  /\ pendingLogins' = Tail(pendingLogins)
           /\ viewStack' = [viewStack EXCEPT !.visible_child_name =
                               PageAfterLogin(loginResult, thrown, @)]
           /\ errorLabel' =
                 IF windowBuild # "part_000" THEN errorLabel
                 ELSE IF ~loginResult.success
                 THEN showError(IF loginResult.error # "" THEN loginResult.error
                                ELSE "Login failed")
                 ELSE IF thrown THEN showError("An error occurred during login")
                 ELSE errorLabel
           /\ currentUserName' =
                 IF windowBuild = "window.ts" /\ loginResult.success /\ ~thrown
                 THEN LoggedInName(pending) ELSE currentUserName
           /\ userName' =
                 IF windowBuild = "window.ts" /\ loginResult.success /\ ~thrown
                 THEN LoggedInName(pending) ELSE userName
           /\ Acted("loginCompleted", pending.phoneNumber, pending.isValid,
                    loginResult.success /\ ~thrown, loginResult.error)
    /\ UNCHANGED <<windowBuild, phoneEntry>>
    /\ UNCHANGED <<variant, chats, messages, currentChatId, listBox, listBoxMobile,
                   welcomeContainer, chatContent, splitView, breakpointBin,
                   mobileNavigationView, mobileWelcomeContainer, mobileChatContent,
                   chatPageTitle, log>>
    /\ UNCHANGED <<svcVars, widgetVars, handleVars, userVars>>

\* Either window build, with the ChatView of the split build in a wide window
InitWindow == \E build \in WindowBuilds : ConstructedSplitIn(TRUE, build) /\ ~splitView.collapsed

NextWindow ==
    \/ \E text \in Phones : TypePhoneNumber(text)
    \/ ShowLogin
    \/ LogoutAction
    \/ HandleLogin
    \/ \E thrown \in BOOLEAN : LoginCompleted(thrown)

SpecWindow == InitWindow /\ [][NextWindow]_vars

(***************************************************************************)
(* The widgets on their own: MessageBubble, ChatListItem, ChatContent      *)
(***************************************************************************)

\* History: the call op made on a widget that was pre before it
Called(op, message, status, count, pre) ==
    [op |-> op, message |-> message, status |-> status, count |-> count, pre |-> pre]

\* The messages a bubble is given: received or own, with every status
BubbleMessages ==
    {[id |-> 1, chatId |-> 1, text |-> "See you tomorrow!", timestamp |-> "10:30 AM",
      isOwn |-> own, status |-> status] : own \in BOOLEAN, status \in Statuses}

\* new MessageBubble()
BubbleNew(v) ==
    /\ bubble' = NewMessageBubble(v)
    /\ call' = Called("new", <<>>, "", 0, bubble)
    /\ UNCHANGED <<viewVars, svcVars, row, restVars>>

BubbleSetMessageData(message) ==
    /\ bubble' = setMessageData(bubble, message)
    /\ call' = Called("setMessageData", <<message>>, "", 0, bubble)
    /\ UNCHANGED <<viewVars, svcVars, row, restVars>>

BubbleUpdateStatus(status) ==
    /\ bubble' = updateStatus(bubble, status)
    /\ call' = Called("updateStatus", <<>>, status, 0, bubble)
    /\ UNCHANGED <<viewVars, svcVars, row, restVars>>

BubbleClear ==
    /\ bubble' = clear(bubble)
    /\ call' = Called("clear", <<>>, "", 0, bubble)
    /\ UNCHANGED <<viewVars, svcVars, row, restVars>>

NextBubble ==
    \/ \E v \in BOOLEAN : BubbleNew(v)
    \/ \E message \in BubbleMessages : BubbleSetMessageData(message)
    \/ \E status \in Statuses \ {Undefined} : BubbleUpdateStatus(status)
    \/ BubbleClear

SpecBubble == InitService /\ [][NextBubble]_vars

\* The unread counts a row is given
Counts == {0, 1, 3, 12}

\* row.setChatData(chats[i]): the row keeps a reference to the chat object
RowSetChatData(i) ==
    /\ row' = setChatDataOn(row, chats, i)
    /\ call' = Called("setChatData", <<>>, "", i, row)
    /\ UNCHANGED <<variant, messages, currentChatId, userName, listBox, listBoxMobile,
                   welcomeContainer, chatContent, splitView, breakpointBin,
                   mobileNavigationView, mobileWelcomeContainer, mobileChatContent,
                   chatPageTitle, log, chats, svcVars, bubble, restVars>>

\* row.updateUnreadCount(count): this.chatData.unreadCount = count writes the
\* chat object itself
RowUpdateUnreadCount(count) ==
    /\ row' = updateUnreadCount(row, count)
    /\ chats' = IF row.chatData # Null
                THEN [chats EXCEPT ![row.chatData].unreadCount = count]
                ELSE chats
    /\ call' = Called("updateUnreadCount", <<>>, "", count, row)
    /\ UNCHANGED <<variant, messages, currentChatId, userName, listBox, listBoxMobile,
                   welcomeContainer, chatContent, splitView, breakpointBin,
                   mobileNavigationView, mobileWelcomeContainer, mobileChatContent,
                   chatPageTitle, log, svcVars, bubble, restVars>>

NextRow ==
    \/ \E i \in DOMAIN chats : RowSetChatData(i)
    \/ \E count \in Counts : RowUpdateUnreadCount(count)

SpecRow == InitService /\ [][NextRow]_vars

\* The messages handed to addMessage: one for each of two chats
NewMessages ==
    {[id |-> NewMessageId(mockMessages(chatId)), chatId |-> chatId, text |-> "On my way",
      timestamp |-> now, isOwn |-> TRUE] : chatId \in SendIds, now \in Clock}

\* chatContent.loadMessages(chatId, messages) with the messages of the chat
ContentLoadMessages(chatId, ms) ==
    /\ chatContent' = loadMessages(chatContent, chatId, ms)
    /\ call' = Called("loadMessages", <<>>, "", chatId, chatContent)
    /\ UNCHANGED <<variant, chats, messages, currentChatId, userName, listBox, listBoxMobile,
                   welcomeContainer, splitView, breakpointBin, mobileNavigationView,
                   mobileWelcomeContainer, mobileChatContent, chatPageTitle, log,
                   svcVars, bubble, row, restVars>>

ContentAddMessage(message) ==
    /\ Len(chatContent.messages) < MaxMessages
    /\ chatContent' = addMessage(chatContent, message)
    /\ call' = Called("addMessage", <<message>>, "", 0, chatContent)
    /\ UNCHANGED <<variant, chats, messages, currentChatId, userName, listBox, listBoxMobile,
                   welcomeContainer, splitView, breakpointBin, mobileNavigationView,
                   mobileWelcomeContainer, mobileChatContent, chatPageTitle, log,
                   svcVars, bubble, row, restVars>>

ContentClearMessages ==
    /\ chatContent' = clearMessages(chatContent)
    /\ call' = Called("clearMessages", <<>>, "", 0, chatContent)
    /\ UNCHANGED <<variant, chats, messages, currentChatId, userName, listBox, listBoxMobile,
                   welcomeContainer, splitView, breakpointBin, mobileNavigationView,
                   mobileWelcomeContainer, mobileChatContent, chatPageTitle, log,
                   svcVars, bubble, row, restVars>>

NextContent ==
    \/ \E chatId \in SendIds : \E ms \in {mockMessages(chatId), <<>>} :
           ContentLoadMessages(chatId, ms)
    \/ \E message \in NewMessages : ContentAddMessage(message)
    \/ ContentClearMessages

SpecContent == InitService /\ [][NextContent]_vars

(***************************************************************************)
(* Handles to template regions                                             *)
(***************************************************************************)

\* A region the transition reads or writes, and how it got its handle: by name
\* in this invocation (get_template_child), from a field assigned in
\* vfunc_constructed, or from a variable captured when the handler was connected
Use(region, via) == [region |-> region, via |-> via]

\* The handles each transition goes through, read off its code.  The back
\* button of the split build is libadwaita's own: no code of ChatView runs.
HandlesUsed(op, layoutMode) ==
    IF variant = "split" THEN
        CASE op = "select" ->
                 {Use("userNameLabel", "field"), Use("welcomeContainer", "closure"),
                  Use("welcomeContainer", "name"), Use("chatContent", "name"),
                  Use("split_view", "name")}
          [] op = "showWelcome" ->
                 {Use("userNameLabel", "field"), Use("chatContent", "name"),
                  Use("welcomeContainer", "field")}
          [] OTHER -> {}
    ELSE
        CASE op = "select" /\ layoutMode = "DESKTOP" ->
                 {Use("welcomeContainer", "closure"), Use("welcomeContainer", "name"),
                  Use("chatContent", "name")}
          [] op = "select" /\ layoutMode = "MOBILE" ->
                 {Use("welcomeContainer", "closure"), Use("navigation_view", "name"),
                  Use("mobileWelcomeContainer", "field"), Use("chatPageTitle", "field"),
                  Use("mobileChatContent", "field"), Use("chatContent", "name")}
          [] op = "back" ->
                 {Use("navigation_view", "name"), Use("mobileChatContent", "field")}
          [] op = "showWelcome" ->
                 {Use("chatContent", "name"), Use("mobileChatContent", "field"),
                  Use("mobileWelcomeContainer", "field"), Use("welcomeContainer", "field")}
          [] OTHER -> {}

\* The regions the host may replace
Replaceable == {"welcomeContainer", "mobileChatContent"}

\* The host replaces a region of the template: get_template_child now returns
\* another widget than the one the fields and closures of ChatView hold.  The
\* new widget is taken to be in the state of the old one.
HostReplace(region) ==
    /\ region \notin replaced
    /\ replaced' = replaced \cup {region}
    /\ Logged("hostReplace", Null, TRUE)
    /\ UNCHANGED <<variant, chats, messages, currentChatId, userName, listBox, listBoxMobile,
                   welcomeContainer, chatContent, splitView, breakpointBin,
                   mobileNavigationView, mobileWelcomeContainer, mobileChatContent,
                   chatPageTitle>>
    /\ UNCHANGED <<svcVars, widgetVars, userVars, windowVars>>

NextHandles ==
    \/ NextMock
    \/ SplitShowWelcomeScreen
    \/ BpShowWelcomeScreen
    \/ \E region \in Replaceable : HostReplace(region)

SpecHandles == Init /\ [][NextHandles]_vars

(***************************************************************************)
(* Properties                                                              *)
(***************************************************************************)

Mobile2 == <<ListPage, ContentPage>>

\* The unread badge of every row bound to the chat with this id is hidden
NoBadge(id) ==
    /\ \A r \in 1..Len(listBox) :
          chats[listBox[r].chatData].id = id => ~listBox[r].unreadBadge.visible
    /\ \A r \in 1..Len(listBoxMobile) :
          chats[listBoxMobile[r].chatData].id = id => ~listBoxMobile[r].unreadBadge.visible

\* The ChatContent on screen holds the messages of conversation id
LoadedFor(id) ==
    /\ ShownContent.currentChatId = id
    /\ ShownContent.messages # <<>>
    /\ \A k \in 1..Len(ShownContent.messages) : ShownContent.messages[k].chatId = id

\* C1: in every reachable state the thread panel is the active panel exactly
\* when a conversation id is held (activePanel = THREAD iff
\* activeConversationId # null).
C1_ThreadIffConversation ==
    (ActivePanel = "THREAD") <=> (currentChatId # Null)

\* C3: when the message fetch of a selection fails, the ViewState after the call
\* is the ViewState before it (the panel that was visible stays visible).
C3_FailedFetchChangesNothing ==
    (LastOp.op = "select" /\ ~LastOp.ok) => ViewState = LastOp.pre

\* C4: a selection writes the conversation id only once the messages of that
\* conversation are loaded: whenever a selection has changed the active
\* conversation id to c, the content on screen holds the messages of c.
C4_IdWrittenOnlyAfterFetch ==
    (LastOp.op = "select" /\ currentChatId = LastOp.arg
        /\ LastOp.pre.activeConversationId # LastOp.arg) => LoadedFor(LastOp.arg)

\* C5: in the mobile layout of the breakpoint build the list and the thread are
\* never shown together: the mobile chat content is visible only while the
\* content page is on top of the stack; after a selection the content page is
\* the top page, above the list; after back-navigation the list is the only
\* page and the mobile chat content is hidden.
C5_MobileListXorThread ==
    (variant = "breakpoint") =>
        /\ isMobileLayout =>
              ~(Top(mobileNavigationView.stack) = ListPage /\ mobileChatContent.visible)
        /\ (LastOp.op = "select" /\ LastOp.pre.layoutMode = "MOBILE") =>
              mobileNavigationView.stack = Mobile2
        /\ (LastOp.op = "back" /\ LastOp.pre.layoutMode = "MOBILE") =>
              /\ mobileNavigationView.stack = <<ListPage>>
              /\ ~mobileChatContent.visible

\* C5 witness: mobile layout, a conversation was opened and then left by back
C5_Witness ==
    /\ variant = "breakpoint" /\ isMobileLayout
    /\ PrevOp.op = "select" /\ PrevOp.pre.layoutMode = "MOBILE" /\ PrevOp.ok
    /\ LastOp.op = "back"

\* C7: after a successful selection of conversation id, its unreadCount is 0 and
\* its row shows no unread badge; every other conversation keeps its unreadCount.
C7_SelectionClearsUnread ==
    (LastOp.op = "select" /\ LastOp.ok) =>
        \A i \in 1..Len(chats) :
            IF chats[i].id = LastOp.arg
            THEN chats[i].unreadCount = 0 /\ NoBadge(chats[i].id)
            ELSE chats[i].unreadCount = mockChats[i].unreadCount

\* C8: from DESKTOP with conversation c in THREAD, a switch to MOBILE directly
\* followed by a switch to DESKTOP gives THREAD with conversation c again.
C8_LayoutRoundTrip ==
    (/\ PrevOp.op = "setLayoutMobile"
     /\ PrevOp.pre.activePanel = "THREAD"
     /\ PrevOp.pre.activeConversationId # Null
     /\ LastOp.op = "setLayoutDesktop")
    => ViewState = [activePanel |-> "THREAD",
                    activeConversationId |-> PrevOp.pre.activeConversationId,
                    layoutMode |-> "DESKTOP"]

\* C8 witness: the round trip was made with conversation 4 in THREAD
C8_Witness ==
    /\ PrevOp.op = "setLayoutMobile"
    /\ PrevOp.pre.activePanel = "THREAD"
    /\ PrevOp.pre.activeConversationId = 4
    /\ LastOp.op = "setLayoutDesktop"
    /\ LoadedFor(4)

Constructed == LastOp.op = "initialize"

\* C11 (as stated): in both layout modes construction leaves the state
\* {WELCOME, null, layoutMode}: the welcome panel is the active panel and no
\* conversation is active.
C11_InitialWelcome ==
    Constructed => (ActivePanel = "WELCOME" /\ currentChatId = Null)

\* C11 (amended): construction leaves no conversation active and the chat
\* content hidden; in DESKTOP the active panel is WELCOME, with the welcome
\* container visible, and in MOBILE it is LIST.
C11_InitialPanelByLayout ==
    Constructed =>
        /\ currentChatId = Null
        /\ ~chatContent.visible /\ ~mobileChatContent.visible
        /\ LayoutMode = "DESKTOP" => (ActivePanel = "WELCOME" /\ welcomeContainer.visible)
        /\ LayoutMode = "MOBILE" => ActivePanel = "LIST"

\* C11 witness: the breakpoint build constructed in the mobile layout, showing
\* its list with the welcome container hidden
C11_Witness ==
    /\ Constructed /\ variant = "breakpoint" /\ LayoutMode = "MOBILE"
    /\ ActivePanel = "LIST" /\ ~welcomeContainer.visible

\* C12: from any reachable state and in both layout modes, showWelcome() leads
\* to activePanel = WELCOME with no active conversation: the welcome container
\* is visible and the chat content hidden.
C12_ShowWelcomeForces ==
    (LastOp.op = "showWelcome") =>
        /\ ActivePanel = "WELCOME"
        /\ currentChatId = Null
        /\ welcomeContainer.visible /\ ~chatContent.visible

\* C13: goBack() in the DESKTOP layout, or when the active panel is not THREAD,
\* leaves the ViewState and the navigation stack as they were.
C13_GoBackNoOp ==
    (LastOp.op = "back"
        /\ (LastOp.pre.layoutMode = "DESKTOP" \/ LastOp.pre.activePanel # "THREAD")) =>
        /\ ViewState = LastOp.pre
        /\ mobileNavigationView.stack = LastOp.preStack

\* C14: a switch to MOBILE made in DESKTOP with conversation c in THREAD keeps
\* THREAD and c, and the thread, not the list, is what the single pane shows
\* (a thread frame is on top of the stack).
C14_ThreadKeptOnMobile ==
    (LastOp.op = "setLayoutMobile" /\ LastOp.pre.activePanel = "THREAD"
        /\ LastOp.pre.activeConversationId # Null) =>
        /\ ViewState = [activePanel |-> "THREAD",
                        activeConversationId |-> LastOp.pre.activeConversationId,
                        layoutMode |-> "MOBILE"]
        /\ (variant = "breakpoint") => Top(mobileNavigationView.stack) = ContentPage
        /\ (variant = "split") => splitView.show_content

\* C15: a switch to DESKTOP made in MOBILE while only the list is on the stack
\* gives the split view with WELCOME and no active conversation, also when a
\* conversation was opened and left by goBack before the switch.
C15_ListOnlyToWelcome ==
    (LastOp.op = "setLayoutDesktop" /\ LastOp.pre.activePanel = "LIST") =>
        ViewState = [activePanel |-> "WELCOME", activeConversationId |-> Null,
                     layoutMode |-> "DESKTOP"]

C17_ExactlyOneContent ==
    (LastOp.op # "initialize" /\ LayoutMode = "DESKTOP") =>
        (welcomeContainer.visible # chatContent.visible)

\* C18 (as stated): when the list load fails during construction, the
\* controller ends with an empty conversation list and the state {WELCOME, null}.
C18_FailedLoadWelcome ==
    (Constructed /\ ~LastOp.ok) =>
        /\ chats = <<>> /\ listBox = <<>>
        /\ ActivePanel = "WELCOME" /\ currentChatId = Null

\* C18 (amended): when the list load fails during construction, the controller
\* ends with no chats and no rows, no conversation active and the chat content
\* hidden; the active panel is WELCOME in DESKTOP and the (empty) LIST in MOBILE.
C18_FailedLoadEmptyList ==
    (Constructed /\ ~LastOp.ok) =>
        /\ chats = <<>> /\ messages = <<>>
        /\ listBox = <<>> /\ listBoxMobile = <<>>
        /\ currentChatId = Null
        /\ ~chatContent.visible /\ ~mobileChatContent.visible
        /\ LayoutMode = "DESKTOP" => (ActivePanel = "WELCOME" /\ welcomeContainer.visible)
        /\ LayoutMode = "MOBILE" => ActivePanel = "LIST"

\* C18 witness: the split build constructed narrow with a failing list load
C18_Witness ==
    /\ Constructed /\ ~LastOp.ok
    /\ variant = "split" /\ LayoutMode = "MOBILE" /\ chats = <<>>

\* C19: after any sequence of addChat and deleteChat no two chats of the
\* service's list share an id.
C19_ChatIdsUnique ==
    \A i, j \in 1..Len(svcChats) : i # j => svcChats[i].id # svcChats[j].id

\* C20: after any sequence of sendMessage and deleteChat with a user logged in
\* no two stored messages share an id.
C20_MessageIdsUnique ==
    \A i, j \in 1..Len(svcMessages) : i # j => svcMessages[i].id # svcMessages[j].id

\* C21: after any sequence of sendMessage, addChat and deleteChat, every stored
\* message's chatId is the id of a chat that is in the chat list.
C21_MessagesReferToChats ==
    \A k \in 1..Len(svcMessages) :
        \E i \in 1..Len(svcChats) : svcChats[i].id = svcMessages[k].chatId


\* What the status icon of a bubble shows: its icon name, or nothing
ShownIcon(b) == IF b.statusIcon.visible THEN b.statusIcon.icon_name ELSE "none"

\* An own message that carries the given status
OwnMessage(status) ==
    [id |-> 1, chatId |-> 1, text |-> "See you tomorrow!", timestamp |-> "10:30 AM",
     isOwn |-> TRUE, status |-> status]

\* The icon setMessageData shows on a new bubble for an own message with the status
IconFor(status) == ShownIcon(setMessageData(NewMessageBubble(FALSE), OwnMessage(status)))

\* C22: the status icon of a bubble that holds an own message is the icon of the
\* message's status whatever was done to the bubble before; pending, sent,
\* delivered, read and failed have five different icons; a missing status has
\* the icon of pending; and after updateStatus(s) the bubble shows what
\* setMessageData shows for the same message with status s.
C22_StatusIcon ==
    /\ (bubble.messageData # <<>> /\ bubble.messageData[1].isOwn)
          => ShownIcon(bubble) = IconFor(bubble.messageData[1].status)
    /\ \A s, t \in Statuses \ {Undefined} : s # t => IconFor(s) # IconFor(t)
    /\ \A s \in Statuses : IconFor(s) # "none"
    /\ IconFor(Undefined) = IconFor("pending")
    /\ (call.op = "updateStatus" /\ call.pre.messageData # <<>>)
          => ShownIcon(bubble) =
                 ShownIcon(setMessageData(call.pre,
                     [call.pre.messageData[1] EXCEPT !.status = call.status]))

\* updateStatus("failed") was called on a bubble that showed an own message as read
C22_Witness ==
    /\ call.op = "updateStatus"
    /\ call.status = "failed"
    /\ call.pre.messageData # <<>>
    /\ call.pre.messageData[1].isOwn
    /\ call.pre.messageData[1].status = "read"
    /\ bubble.statusIcon.icon_name = "dialog-error-symbolic"

\* C23: after any sequence of setChatData and updateUnreadCount on a row, the
\* unread badge of a row that holds a chat is visible exactly when that chat's
\* unreadCount is above zero, and a visible badge is labelled with the count.
C23_BadgeFollowsUnreadCount ==
    row.chatData # Null =>
        /\ row.unreadBadge.visible <=> chats[row.chatData].unreadCount > 0
        /\ row.unreadBadge.visible =>
               row.unreadBadge.label = toString(chats[row.chatData].unreadCount)

\* updateUnreadCount(12) was called on the row of chat 2 while its badge was hidden
C23_Witness ==
    /\ call.op = "updateUnreadCount"
    /\ call.count = 12
    /\ call.pre.chatData # Null
    /\ ~call.pre.unreadBadge.visible
    /\ row.unreadBadge = [visible |-> TRUE, label |-> "12"]
    /\ row.chatData = mockChats[2].id

\* The uses of the last transition that went through a handle obtained before
\* the host replaced the region
StaleUses ==
    {u \in HandlesUsed(LastOp.op, LastOp.pre.layoutMode) :
        u.via # "name" /\ u.region \in replaced}

\* C24: no transition (activation, showWelcome, back) reads or writes a region
\* through a handle obtained in an earlier invocation after the host has
\* replaced that region.
C24_NoStaleHandle == StaleUses = {}

\* C25: whenever the chat content of the current layout is on screen, the
\* conversation id of ChatView equals the one the content widget holds, also
\* after activations whose message load fails.
C25_ViewAndContentAgree ==
    (ShownContent.visible /\ ContentRegionVisible)
        => currentChatId = ShownContent.currentChatId

\* C26: addMessage(m) appends m to the messages and the widgets exactly when
\* m.chatId is the current chat id of the widget, and otherwise changes neither;
\* after clearMessages no addMessage is accepted until loadMessages is called.
C26_AddMessageOnlyForCurrentChat ==
    /\ call.op = "addMessage" =>
          IF call.message[1].chatId = call.pre.currentChatId
          THEN /\ chatContent.messages = Append(call.pre.messages, call.message[1])
               /\ chatContent.widgets = Append(call.pre.widgets, call.message[1].text)
          ELSE chatContent = call.pre
    /\ (call.op = "addMessage" /\ call.pre.currentChatId = Null) => chatContent = call.pre
    /\ call.op = "clearMessages" =>
          \A message \in NewMessages : addMessage(chatContent, message) = chatContent

\* addMessage was accepted on a widget that shows the chat of the message
C26_WitnessAccepted ==
    /\ call.op = "addMessage"
    /\ call.pre.currentChatId = call.message[1].chatId
    /\ Len(call.pre.messages) > Len(mockMessages(1))
    /\ Len(chatContent.messages) = Len(call.pre.messages) + 1

\* addMessage was called on a widget that holds no chat, as clearMessages leaves it
C26_Witness ==
    /\ call.op = "addMessage"
    /\ call.pre.currentChatId = Null
    /\ chatContent.messages = <<>>

\* C27: after any sequence of login, logout, updateProfile and deleteAccount
\* (and updateStatus), UserService and ChatService hold the same current user:
\* both none, or both the same User object.
C27_ServicesAgreeOnUser == usCurrentUser = svcCurrentUser

\* A user created by login has been renamed by updateProfile, and both
\* services hold that object
C27_Witness ==
    /\ usCurrentUser # <<>>
    /\ usCurrentUser[1] > Len(mockUsers)
    /\ userObjects[usCurrentUser[1]].name = "Johnny"
    /\ svcCurrentUser = usCurrentUser

\* C28: a phone number that passed the page validation (LoginPage.isValid) is
\* accepted by the validation inside UserService.login, so the login does not
\* fail; and the phone numbers of the pre-registered users pass it.
C28_ValidatorsAgree ==
    /\ (winLog.op = "login" /\ winLog.isValid)
          => /\ UserService_validatePhoneNumber(winLog.phoneNumber).isValid
             /\ winLog.success
    /\ \A r \in DOMAIN mockUsers :
          UserService_validatePhoneNumber(mockUsers[r].phoneNumber).isValid

\* C29: the stack comes to show "chat" only when a suspended login whose phone
\* number passed the page validation resumes with a successful result; the
\* login action itself, a failed login and an exception leave the page as it
\* was, whatever ran between the login action and its completion.
C29_ChatPageOnlyAfterLogin ==
    /\ (viewStack.visible_child_name = "chat" /\ winLog.pre # "chat")
          => (winLog.op = "loginCompleted" /\ winLog.isValid /\ winLog.success)
    /\ winLog.op = "login" => viewStack.visible_child_name = winLog.pre
    /\ (winLog.op = "loginCompleted" /\ ~winLog.success)
          => viewStack.visible_child_name = winLog.pre

\* A successful login has completed from the login page and switched the stack
\* to "chat" while another login is still suspended
C29_Witness ==
    /\ winLog.op = "loginCompleted"
    /\ winLog.success
    /\ winLog.pre = "login"
    /\ viewStack.visible_child_name = "chat"
    /\ pendingLogins # <<>>

\* C30: after the window's logout action no user is authenticated in
\* UserService or ChatService, the login page is visible, and the chat view is
\* in {WELCOME, null}.
C30_LogoutClearsSession ==
    winLog.op = "logout" =>
        /\ usCurrentUser = <<>>
        /\ svcCurrentUser = <<>>
        /\ viewStack.visible_child_name = "login"
        /\ ActivePanel = "WELCOME"
        /\ currentChatId = Null

\* A text that holds nothing but blanks
IsBlank(text) == \A k \in 1..Len(text) : SubSeq(text, k, k) = " "

\* What a sendMessage(chatId, text) step must do to the messages and the chats
SendMessagePost(chatId, text) ==
    IF svcCurrentUser = <<>> \/ IsBlank(text)
    THEN /\ ~svcResponse'.success
         /\ svcMessages' = svcMessages
         /\ svcChats' = svcChats
    ELSE /\ svcResponse'.success
         /\ Len(svcMessages') = Len(svcMessages) + 1
         /\ SubSeq(svcMessages', 1, Len(svcMessages)) = svcMessages
         /\ svcMessages'[Len(svcMessages')].chatId = chatId
         /\ Len(svcChats') = Len(svcChats)
         /\ \A i \in 1..Len(svcChats) :
               IF svcChats[i].id = chatId
               THEN svcChats'[i] = [svcChats[i] EXCEPT
                                       !.lastMessage = svcChats'[i].lastMessage,
                                       !.timestamp = svcChats'[i].timestamp]
               ELSE svcChats'[i] = svcChats[i]

\* C31: every sendMessage step without a logged-in user or with an empty or
\* blank text returns an error and changes neither the messages nor any chat;
\* every other sendMessage step returns success, appends exactly one message,
\* and changes nothing of the chats but the target chat's lastMessage and
\* timestamp.
C31_SendMessageAllOrNothing ==
    [][\A chatId \in SendIds, text \in Texts, now \in Clock :
          SendMessage(chatId, text, now) => SendMessagePost(chatId, text)]_vars

\* A message was sent by a logged-in user: it is stored last and the target
\* chat shows it
C31_Witness ==
    /\ svcResponse.success
    /\ svcCurrentUser # <<>>
    /\ Len(svcMessages) > Len(mockMessages(1))
    /\ svcMessages[Len(svcMessages)].text = "hi"
    /\ \E i \in 1..Len(svcChats) :
          /\ svcChats[i].id = svcMessages[Len(svcMessages)].chatId
          /\ svcChats[i].lastMessage = "hi"
          /\ svcChats[i].timestamp = "11:00 AM"

\* The chats of pages 1..n of the given size, one after the other
RECURSIVE PagesUpTo(_, _, _)
PagesUpTo(stored, n, pageSize) ==
    IF n = 0 THEN <<>>
    ELSE PagesUpTo(stored, n - 1, pageSize) \o getChats(stored, n, pageSize).chats

\* The number of pages is the least one that holds every item
IsCeil(totalPages, totalItems, pageSize) ==
    /\ totalPages * pageSize >= totalItems
    /\ (totalPages - 1) * pageSize < totalItems
    /\ totalPages >= 0

\* The page a getChats response carries is the stretch of the stored chats that
\* starts after the pages before it
PageOfStored(data) ==
    LET before == (data.pagination.page - 1) * data.pagination.pageSize
        left == Len(svcChats) - before
        expected == IF left <= 0 THEN 0
                    ELSE IF left < data.pagination.pageSize THEN left
                    ELSE data.pagination.pageSize
    IN  /\ Len(data.chats) = expected
        /\ \A k \in 1..Len(data.chats) : data.chats[k] = svcChats[before + k]

\* C32: for every page size of at least one, the pages 1..totalPages of
\* getChats put one after the other are the stored chat list, in order, no chat
\* missing or repeated; totalPages is ceil(totalItems / pageSize); a page
\* beyond totalPages holds no chat; and the response of a getChats call is
\* that page of the stored list.
C32_PagesPartitionTheList ==
    /\ \A pageSize \in PageSizes :
          LET totalPages == getChats(svcChats, 1, pageSize).pagination.totalPages IN
          /\ PagesUpTo(svcChats, totalPages, pageSize) = svcChats
          /\ \A page \in 1..(Len(svcChats) + MaxPage) :
                LET result == getChats(svcChats, page, pageSize) IN
                /\ result.pagination.totalItems = Len(svcChats)
                /\ IsCeil(result.pagination.totalPages, Len(svcChats), pageSize)
                /\ page > totalPages => result.chats = <<>>
    /\ "data" \in DOMAIN svcResponse =>
          /\ svcResponse.success
          /\ PageOfStored(svcResponse.data)
          /\ IsCeil(svcResponse.data.pagination.totalPages,
                    svcResponse.data.pagination.totalItems,
                    svcResponse.data.pagination.pageSize)
          /\ svcResponse.data.pagination.totalItems = Len(svcChats)

\* The second and last page of four chats in pages of three holds the fourth
\* chat alone
C32_Witness ==
    /\ "data" \in DOMAIN svcResponse
    /\ Len(svcChats) = 4
    /\ svcResponse.data.pagination = [page |-> 2, pageSize |-> 3,
                                      totalItems |-> 4, totalPages |-> 2]
    /\ svcResponse.data.chats = <<svcChats[4]>>

\* A page beyond the last one was asked for and came back empty
C32_WitnessBeyond ==
    /\ "data" \in DOMAIN svcResponse
    /\ Len(svcChats) > 0
    /\ svcResponse.data.pagination.page > svcResponse.data.pagination.totalPages
    /\ svcResponse.data.chats = <<>>
====
